---------------------------- MODULE Spec2Model ----------------------------
(***************************************************************************)
(* State-machine model of server.js: the family-request store, the family  *)
(* network store, the relationship table and the two chat endpoints.       *)
(*                                                                         *)
(* Every HTTP handler is one action.  The handlers are synchronous except  *)
(* for the awaits of /api/chatbot and /api/gemini, and those two handlers  *)
(* touch no store, so one atomic step per call is exact.  The variables    *)
(* call and res record the last request received and the reply sent to it. *)
(*                                                                         *)
(* JavaScript values: a field that is missing from the request body is     *)
(* Undefined.  createdAt and addedAt are written and never read, and are   *)
(* left out.  E-mail addresses are ordinary strings that are not names of  *)
(* properties of Object.prototype.                                         *)
(***************************************************************************)
EXTENDS Integers, Sequences, FiniteSets, TLC

VARIABLES familyRequests, familyNetworks, sessionClient, call, res

vars == <<familyRequests, familyNetworks, sessionClient, call, res>>

stores == <<familyRequests, familyNetworks, sessionClient>>

-----------------------------------------------------------------------------
(* Bounds and input domains *)

MaxRequests == 2

Undefined == "<undefined>"

John == "john.doe@example.com"

Jane == "jane.smith@example.com"

Emails == {John, Jane}

Friend == "Friend"

Parent == "Parent"

Body(fromEmail, toEmail, toName, relationship) ==
  [fromEmail |-> fromEmail, toEmail |-> toEmail, toName |-> toName,
   relationship |-> relationship]

(* Request bodies that pass validation: by e-mail, by name only, to the    *)
(* sender itself, in both directions, and with two relationships.          *)
ValidBodies ==
  { Body(John, Jane, Undefined, Friend),
    Body(John, Jane, Undefined, Parent),
    Body(John, Undefined, Jane, Friend),
    Body(John, John, Undefined, Friend),
    Body(Jane, John, Undefined, Friend),
    Body(Jane, Undefined, John, Friend),
    Body(Jane, Jane, John, Parent) }

(* One request body per way of failing validation. *)
InvalidBodies ==
  { Body(Undefined, Jane, Undefined, Friend),
    Body(John, Undefined, "", Friend),
    Body(John, Jane, Undefined, Undefined) }

Bodies == ValidBodies \cup InvalidBodies

TableLabels ==
  {"Spouse", "Parent", "Child", "Sibling", "Grandparent", "Grandchild",
   "Uncle", "Aunt", "Niece/Nephew", "Cousin", "Friend", "Caregiver", "Patient"}

AllRelationshipInputs == TableLabels \cup {"Unknown"}

Times == {"t1", "t2"}

RequestIds == 1..(MaxRequests + 1)

-----------------------------------------------------------------------------
(* JavaScript helpers *)

Falsy(v) == v \in {Undefined, ""}

Or(a, b) == IF Falsy(a) THEN b ELSE a

PropertyKey(v) == IF v = Undefined THEN "undefined" ELSE v

mockUsers ==
  << [email |-> John, name |-> "John Doe"],
     [email |-> Jane, name |-> "Jane Smith"] >>

UserName(email) ==
  IF \E i \in 1..Len(mockUsers) : mockUsers[i].email = email
  THEN mockUsers[CHOOSE i \in 1..Len(mockUsers) :
                   /\ mockUsers[i].email = email
                   /\ \A j \in 1..(i - 1) : mockUsers[j].email # email].name
  ELSE Undefined

-----------------------------------------------------------------------------
(* Relationship table *)

inverseMap ==
  [l \in {"Spouse", "Parent", "Child", "Sibling", "Grandparent", "Grandchild",
          "Uncle", "Aunt", "Cousin", "Friend", "Caregiver"} |->
     CASE l = "Spouse" -> "Spouse"
       [] l = "Parent" -> "Child"
       [] l = "Child" -> "Parent"
       [] l = "Sibling" -> "Sibling"
       [] l = "Grandparent" -> "Grandchild"
       [] l = "Grandchild" -> "Grandparent"
       [] l = "Uncle" -> "Niece/Nephew"
       [] l = "Aunt" -> "Niece/Nephew"
       [] l = "Cousin" -> "Cousin"
       [] l = "Friend" -> "Friend"
       [] l = "Caregiver" -> "Patient"]

getInverseRelationship(relationship) ==
  IF relationship \in DOMAIN inverseMap
  THEN inverseMap[relationship]
  ELSE "Related"

-----------------------------------------------------------------------------
(* Stores *)

networkOf(email) ==
  IF PropertyKey(email) \in DOMAIN familyNetworks
  THEN familyNetworks[PropertyKey(email)]
  ELSE << >>

FindRequest(id) ==
  IF \E i \in 1..Len(familyRequests) : familyRequests[i].id = id
  THEN CHOOSE i \in 1..Len(familyRequests) :
         /\ familyRequests[i].id = id
         /\ \A j \in 1..(i - 1) : familyRequests[j].id # id
  ELSE 0

IsPendingUnchecked(request) == TRUE

IsPending(request) == request.status = "pending"

existingRequest(fromEmail, toEmail, toName, relationship) ==
  \E i \in 1..Len(familyRequests) :
    /\ familyRequests[i].fromEmail = fromEmail
    /\ (familyRequests[i].toEmail = toEmail \/ familyRequests[i].toName = toName)
    /\ familyRequests[i].relationship = relationship
    /\ familyRequests[i].status = "pending"

existingFamilyByEmailOnly(fromEmail, toEmail, toName) ==
  /\ PropertyKey(fromEmail) \in DOMAIN familyNetworks
  /\ \E i \in 1..Len(familyNetworks[PropertyKey(fromEmail)]) :
       familyNetworks[PropertyKey(fromEmail)][i].email = toEmail

existingFamily(fromEmail, toEmail, toName) ==
  /\ PropertyKey(fromEmail) \in DOMAIN familyNetworks
  /\ \E i \in 1..Len(familyNetworks[PropertyKey(fromEmail)]) :
       \/ familyNetworks[PropertyKey(fromEmail)][i].email = toEmail
       \/ familyNetworks[PropertyKey(fromEmail)][i].email = toName

MissingFields(fromEmail, toEmail, toName, relationship) ==
  \/ Falsy(fromEmail)
  \/ (Falsy(toEmail) /\ Falsy(toName))
  \/ Falsy(relationship)

SubmitCall(fromEmail, toEmail, toName, relationship) ==
  [op |-> "submit", fromEmail |-> fromEmail, toEmail |-> toEmail,
   toName |-> toName, relationship |-> relationship]

Reply(status, error) == [status |-> status, success |-> FALSE, error |-> error]

Ok == [status |-> 200, success |-> TRUE, error |-> Undefined]

(* POST /api/family/request *)
Submit(fromEmail, toEmail, toName, relationship) ==
  /\ call' = SubmitCall(fromEmail, toEmail, toName, relationship)
  /\ UNCHANGED <<familyNetworks, sessionClient>>
  /\ IF MissingFields(fromEmail, toEmail, toName, relationship)
     THEN /\ res' = Reply(400, "Missing required fields")
          /\ UNCHANGED familyRequests
     ELSE IF existingRequest(fromEmail, toEmail, toName, relationship)
     THEN /\ res' = Reply(409, "Request already pending")
          /\ UNCHANGED familyRequests
     ELSE IF existingFamily(fromEmail, toEmail, toName)
     THEN /\ res' = Reply(409, "Already in family network")
          /\ UNCHANGED familyRequests
     ELSE /\ Len(familyRequests) < MaxRequests
          /\ familyRequests' = Append(familyRequests,
               [id |-> Len(familyRequests) + 1,
                fromEmail |-> fromEmail,
                toEmail |-> toEmail,
                toName |-> toName,
                relationship |-> relationship,
                status |-> "pending",
                respondedAt |-> Undefined])
          /\ res' = Ok

WithList(networks, key) ==
  IF key \in DOMAIN networks THEN networks ELSE networks @@ (key :> << >>)

Push(networks, key, member) ==
  [networks EXCEPT ![key] = Append(@, member)]

SourceEntry(request) ==
  [email |-> Or(request.toEmail, request.toName),
   name |-> Or(UserName(request.toEmail), request.toName),
   relationship |-> request.relationship,
   status |-> "accepted"]

TargetEntry(request) ==
  [email |-> request.fromEmail,
   name |-> Or(UserName(request.fromEmail), request.fromEmail),
   relationship |-> getInverseRelationship(request.relationship),
   status |-> "accepted"]

AddToNetworksKnownEmailOnly(networks, request) ==
  LET created == WithList(WithList(networks, PropertyKey(request.fromEmail)),
                          PropertyKey(request.toEmail))
      pushed == Push(created, PropertyKey(request.fromEmail), SourceEntry(request))
  IN  IF Falsy(request.toEmail)
      THEN pushed
      ELSE Push(pushed, PropertyKey(request.toEmail), TargetEntry(request))

AddToNetworks(networks, request) ==
  LET created == WithList(WithList(networks, PropertyKey(request.fromEmail)),
                          PropertyKey(request.toEmail))
      pushed == Push(created, PropertyKey(request.fromEmail), SourceEntry(request))
  IN  Push(pushed, PropertyKey(request.toEmail), TargetEntry(request))

(* POST /api/family/request/:id/accept *)
Accept(id, now) ==
  /\ call' = [op |-> "accept", id |-> id]
  /\ UNCHANGED sessionClient
  /\ LET i == FindRequest(id) IN
     IF i = 0
     THEN /\ res' = Reply(404, "Request not found")
          /\ UNCHANGED <<familyRequests, familyNetworks>>
     ELSE IF ~IsPending(familyRequests[i])
     THEN /\ res' = Reply(400, "Request already processed")
          /\ UNCHANGED <<familyRequests, familyNetworks>>
     ELSE /\ familyRequests' =
               [familyRequests EXCEPT ![i].status = "accepted",
                                      ![i].respondedAt = now]
          /\ familyNetworks' = AddToNetworks(familyNetworks, familyRequests[i])
          /\ res' = Ok

RejectWriteBeforeCheck(id, now) ==
  /\ call' = [op |-> "reject", id |-> id]
  /\ UNCHANGED <<familyNetworks, sessionClient>>
  /\ LET i == FindRequest(id) IN
     IF i = 0
     THEN /\ res' = Reply(404, "Request not found")
          /\ UNCHANGED familyRequests
     ELSE /\ familyRequests' =
               [familyRequests EXCEPT ![i].respondedAt = now,
                  ![i].status = IF IsPending(familyRequests[i])
                                THEN "declined" ELSE @]
          /\ res' = IF IsPending(familyRequests[i])
                    THEN Ok
                    ELSE Reply(400, "Request already processed")

(* POST /api/family/request/:id/reject *)
Reject(id, now) ==
  /\ call' = [op |-> "reject", id |-> id]
  /\ UNCHANGED <<familyNetworks, sessionClient>>
  /\ LET i == FindRequest(id) IN
     IF i = 0
     THEN /\ res' = Reply(404, "Request not found")
          /\ UNCHANGED familyRequests
     ELSE IF ~IsPending(familyRequests[i])
     THEN /\ res' = Reply(400, "Request already processed")
          /\ UNCHANGED familyRequests
     ELSE /\ familyRequests' =
               [familyRequests EXCEPT ![i].status = "declined",
                                      ![i].respondedAt = now]
          /\ res' = Ok

-----------------------------------------------------------------------------
(* Chat gateway *)

Messages == {Undefined, "", "Hello", "help me find a doctor", "xyz123"}

SessionIds == {Undefined, "s1"}

toLowerCase(message) == IF message = "Hello" THEN "hello" ELSE message

(* String.prototype.includes over the messages above and the keywords of   *)
(* simulateDialogflowResponse.                                             *)
includes(lowerMessage, keyword) ==
  \/ lowerMessage = "hello" /\ keyword = "hello"
  \/ lowerMessage = "help me find a doctor" /\ keyword \in {"help", "doctor"}

healthTips ==
  << "Remember to stay hydrated throughout the day!",
     "Regular exercise is important for maintaining good health.",
     "A balanced diet with plenty of fruits and vegetables is essential.",
     "Getting adequate sleep helps your body recover and function properly.",
     "Regular health checkups can help detect issues early.",
     "Managing stress is important for both mental and physical health.",
     "Washing your hands frequently helps prevent the spread of germs." >>

Simulated(response, intent) ==
  [status |-> 200, success |-> TRUE, error |-> Undefined,
   response |-> response, intent |-> intent,
   sessionId |-> "simulated-session-id", responder |-> "fallback"]

(* random is the index Math.floor(Math.random() * healthTips.length) + 1 *)
simulateDialogflowResponse(message, random) ==
  LET lowerMessage == toLowerCase(message) IN
  IF includes(lowerMessage, "hello") \/ includes(lowerMessage, "hi")
  THEN Simulated("Hello! I'm your health assistant powered by Dialogflow. How can I help you today?", "greeting")
  ELSE IF includes(lowerMessage, "help")
  THEN Simulated("I can help you with health information, finding doctors, booking appointments, and answering medical questions. What would you like to know?", "help")
  ELSE IF includes(lowerMessage, "doctor")
  THEN Simulated("You can find a list of doctors in the Doctors section of your dashboard or book an appointment directly from there.", "doctor_info")
  ELSE IF includes(lowerMessage, "appointment")
  THEN Simulated("To book an appointment, go to your dashboard and click 'Book Appointment'. You can select a doctor, date, and time that works for you.", "appointment_info")
  ELSE IF includes(lowerMessage, "medicine") \/ includes(lowerMessage, "prescription")
  THEN Simulated("Always follow your doctor's prescription. If you have questions about your medication, consult your healthcare provider.", "medicine_info")
  ELSE IF includes(lowerMessage, "emergency")
  THEN Simulated("If this is a medical emergency, please call your local emergency number immediately or go to the nearest emergency room.", "emergency_info")
  ELSE IF includes(lowerMessage, "bye") \/ includes(lowerMessage, "goodbye")
  THEN Simulated("Goodbye! Take care of your health. Feel free to come back if you have more questions.", "goodbye")
  ELSE Simulated(healthTips[random], "default")

(* What the intent-detection service does with one call: it answers, with  *)
(* or without a matched intent, or the call raises an error whose message  *)
(* may be empty.                                                           *)
ServiceOutcomes ==
  { [kind |-> "ok", text |-> "Drink water.", intent |-> "health.tip"],
    [kind |-> "ok", text |-> "", intent |-> Undefined],
    [kind |-> "throw", message |-> "14 UNAVAILABLE"],
    [kind |-> "throw", message |-> ""] }

detectIntentFallbackOnError(message, sessionId, outcome, random) ==
  IF sessionClient = Undefined \/ outcome.kind = "throw"
  THEN simulateDialogflowResponse(message, random)
  ELSE [status |-> 200, success |-> TRUE, error |-> Undefined,
        response |-> outcome.text, intent |-> Or(outcome.intent, "default"),
        sessionId |-> sessionId, responder |-> "service"]

detectIntent(message, sessionId, outcome, random) ==
  IF sessionClient = Undefined
  THEN simulateDialogflowResponse(message, random)
  ELSE IF outcome.kind = "ok"
  THEN [status |-> 200, success |-> TRUE, error |-> Undefined,
        response |-> outcome.text, intent |-> Or(outcome.intent, "default"),
        sessionId |-> sessionId, responder |-> "service"]
  ELSE [status |-> 200, success |-> FALSE,
        error |-> Or(outcome.message, "Failed to get response from Dialogflow"),
        responder |-> "service"]

(* POST /api/chatbot *)
ChatBot(message, sessionId, outcome, random) ==
  /\ call' = [op |-> "chatbot", message |-> message, sessionId |-> sessionId,
              outcome |-> outcome]
  /\ UNCHANGED stores
  /\ IF Falsy(message)
     THEN res' = [status |-> 400, success |-> FALSE,
                  error |-> "Message is required", responder |-> "none"]
     ELSE res' = detectIntent(message, Or(sessionId, "default-session"),
                              outcome, random)

(* What the generative-text provider does with one call: auth.getClient or *)
(* client.request raises, or client.request returns a response with a      *)
(* status and possibly a generated text.                                   *)
ProviderStatuses == {200, 204, 400, 503}

ProviderOutcomes ==
  { [kind |-> "throw", status |-> 0, text |-> Undefined] }
  \cup { [kind |-> "response", status |-> s, text |-> t] :
           s \in ProviderStatuses, t \in {Undefined, "Rest well."} }

GeminiAlways200(message, outcome) ==
  /\ call' = [op |-> "gemini", message |-> message, outcome |-> outcome]
  /\ UNCHANGED stores
  /\ IF Falsy(message)
     THEN res' = [status |-> 400, success |-> FALSE, error |-> "Message is required"]
     ELSE IF outcome.kind = "throw"
     THEN res' = [status |-> 200, success |-> FALSE, error |-> "Internal server error"]
     ELSE IF outcome.status # 200
     THEN res' = [status |-> 200, success |-> FALSE, error |-> "Gemini API error"]
     ELSE res' = [status |-> 200, success |-> TRUE, error |-> Undefined,
                  response |-> Or(outcome.text, "Sorry, I could not generate a response.")]

(* POST /api/gemini *)
Gemini(message, outcome) ==
  /\ call' = [op |-> "gemini", message |-> message, outcome |-> outcome]
  /\ UNCHANGED stores
  /\ IF Falsy(message)
     THEN res' = [status |-> 400, success |-> FALSE, error |-> "Message is required"]
     ELSE IF outcome.kind = "throw"
     THEN res' = [status |-> 500, success |-> FALSE, error |-> "Internal server error"]
     ELSE IF outcome.status # 200
     THEN res' = [status |-> outcome.status, success |-> FALSE,
                  error |-> "Gemini API error"]
     ELSE res' = [status |-> 200, success |-> TRUE, error |-> Undefined,
                  response |-> Or(outcome.text, "Sorry, I could not generate a response.")]

(* GET /api/health *)
Health ==
  /\ call' = [op |-> "health"]
  /\ UNCHANGED stores
  /\ res' = [status |-> 200,
             dialogflow |-> IF sessionClient # Undefined THEN "connected"
                                                         ELSE "simulated"]

-----------------------------------------------------------------------------
(* Specifications *)

NoCall ==
  /\ familyRequests = << >>
  /\ familyNetworks = << >>
  /\ call = [op |-> "none"]
  /\ res = [status |-> 0]

(* The family handlers neither read nor write sessionClient; Spec and      *)
(* SpecRel start with the client constructed.                              *)
Init == NoCall /\ sessionClient = "client"

(* The constructor of the client either succeeded or threw (lines 20-30). *)
InitChat == NoCall /\ sessionClient \in {"client", Undefined}

SubmitStep ==
  \E b \in Bodies : Submit(b.fromEmail, b.toEmail, b.toName, b.relationship)

AcceptStep == \E id \in RequestIds, now \in Times : Accept(id, now)

RejectStep == \E id \in RequestIds, now \in Times : Reject(id, now)

Next == SubmitStep \/ AcceptStep \/ RejectStep

Spec == Init /\ [][Next]_vars

SubmitRelStep ==
  \E l \in AllRelationshipInputs : Submit(John, Jane, Undefined, l)

NextRel == SubmitRelStep \/ AcceptStep \/ RejectStep

SpecRel == Init /\ [][NextRel]_vars

ChatBotStep ==
  \E m \in Messages, s \in SessionIds, o \in ServiceOutcomes,
     random \in 1..Len(healthTips) : ChatBot(m, s, o, random)

GeminiStep == \E m \in Messages, o \in ProviderOutcomes : Gemini(m, o)

NextChat == ChatBotStep \/ GeminiStep \/ Health

SpecChat == InitChat /\ [][NextChat]_vars

-----------------------------------------------------------------------------
(* Properties *)

Target(request) == Or(request.toEmail, request.toName)

Requests == 1..Len(familyRequests)

AcceptedCount == Cardinality({i \in Requests : familyRequests[i].status = "accepted"})

RECURSIVE SumLen(_, _)
SumLen(networks, keys) ==
  IF keys = {} THEN 0
  ELSE LET k == CHOOSE x \in keys : TRUE
       IN  Len(networks[k]) + SumLen(networks, keys \ {k})

TotalEntries == SumLen(familyNetworks, DOMAIN familyNetworks)

FamilyCall(c) == c.op \in {"submit", "accept", "reject"}

(* C1: a request's status changes at most once, only from pending to       *)
(* accepted or declined; the first accept or reject of a pending request   *)
(* succeeds, and every later accept or reject of the same id replies 400   *)
(* 'Request already processed' and leaves status and respondedAt alone.    *)
C1_Step ==
  /\ Len(familyRequests') >= Len(familyRequests)
  /\ \A i \in Requests :
       /\ familyRequests[i].status # "pending"
            => /\ familyRequests'[i].status = familyRequests[i].status
               /\ familyRequests'[i].respondedAt = familyRequests[i].respondedAt
       /\ familyRequests'[i].status # familyRequests[i].status
            => familyRequests'[i].status \in {"accepted", "declined"}
  /\ (call'.op \in {"accept", "reject"} /\ FindRequest(call'.id) # 0)
       => LET i == FindRequest(call'.id) IN
          IF familyRequests[i].status = "pending"
          THEN /\ res'.status = 200
               /\ familyRequests'[i].status =
                    (IF call'.op = "accept" THEN "accepted" ELSE "declined")
          ELSE /\ res' = Reply(400, "Request already processed")
               /\ familyRequests'[i] = familyRequests[i]

C1_StatusChangesOnce == [][C1_Step]_vars

C1_Witness ==
  /\ call.op \in {"accept", "reject"}
  /\ res = Reply(400, "Request already processed")
  /\ FindRequest(call.id) # 0
  /\ familyRequests[FindRequest(call.id)].status = "declined"
  /\ \E i \in Requests : familyRequests[i].status = "accepted"

(* C2: a valid submit whose (fromEmail, target, relationship) is fresh - no *)
(* pending request with the same sender, target and relationship, and the   *)
(* target not in the sender's network - succeeds and adds exactly one       *)
(* pending request.                                                         *)
FreshSubmit(c) ==
  /\ ~MissingFields(c.fromEmail, c.toEmail, c.toName, c.relationship)
  /\ ~\E i \in Requests :
        /\ familyRequests[i].status = "pending"
        /\ familyRequests[i].fromEmail = c.fromEmail
        /\ Target(familyRequests[i]) = Target(c)
        /\ familyRequests[i].relationship = c.relationship
  /\ ~\E j \in 1..Len(networkOf(c.fromEmail)) :
        networkOf(c.fromEmail)[j].email = Target(c)

C2_Step ==
  (call'.op = "submit" /\ FreshSubmit(call'))
    => /\ res'.status = 200
       /\ Len(familyRequests') = Len(familyRequests) + 1
       /\ SubSeq(familyRequests', 1, Len(familyRequests)) = familyRequests
       /\ familyRequests'[Len(familyRequests')].status = "pending"

C2_FreshSubmitSucceeds == [][C2_Step]_vars

(* C3: at most one pending request per identity key (fromEmail,            *)
(* toEmail-or-toName, relationship).                                       *)
C3_OnePendingPerKey ==
  \A i, j \in Requests :
    ( /\ i # j
      /\ familyRequests[i].status = "pending"
      /\ familyRequests[j].status = "pending"
      /\ familyRequests[i].fromEmail = familyRequests[j].fromEmail
      /\ familyRequests[i].relationship = familyRequests[j].relationship )
    => Target(familyRequests[i]) # Target(familyRequests[j])

(* C4: a successful accept appends exactly two network entries and changes *)
(* nothing else in the network store: to networkOf(fromEmail) an entry for  *)
(* the target with the stated relationship, to networkOf(toEmail) an entry  *)
(* for fromEmail with the inverse relationship; the number of entries is    *)
(* always twice the number of accepted requests.                            *)
Appended(list, request, key) ==
  LET sourceSide == IF key = PropertyKey(request.fromEmail) THEN 1 ELSE 0
      targetSide == IF key = PropertyKey(request.toEmail) THEN 1 ELSE 0
  IN  /\ Len(familyNetworks'[key]) = Len(list) + sourceSide + targetSide
      /\ SubSeq(familyNetworks'[key], 1, Len(list)) = list
      /\ sourceSide = 1
           => /\ familyNetworks'[key][Len(list) + 1].email = Target(request)
              /\ familyNetworks'[key][Len(list) + 1].relationship
                   = request.relationship
      /\ targetSide = 1
           => /\ familyNetworks'[key][Len(list) + sourceSide + 1].email
                   = request.fromEmail
              /\ familyNetworks'[key][Len(list) + sourceSide + 1].relationship
                   = getInverseRelationship(request.relationship)

C4_Step ==
  /\ (call'.op = "accept" /\ res'.status = 200)
       => LET request == familyRequests[FindRequest(call'.id)] IN
          /\ DOMAIN familyNetworks' =
               DOMAIN familyNetworks
                 \cup {PropertyKey(request.fromEmail), PropertyKey(request.toEmail)}
          /\ \A key \in DOMAIN familyNetworks' :
               Appended(networkOf(key), request, key)
  /\ TotalEntries' = 2 * AcceptedCount'

C4_AcceptAddsTwoEntries == [][C4_Step]_vars

C4_Witness ==
  /\ call.op = "accept"
  /\ res.status = 200
  /\ \E i, j, k \in Requests :
       /\ familyRequests[i].status = "accepted" /\ Falsy(familyRequests[i].toEmail)
       /\ familyRequests[j].status = "accepted"
       /\ familyRequests[j].toEmail = familyRequests[j].fromEmail
       /\ familyRequests[k].status = "accepted" /\ k = FindRequest(call.id)
  /\ TotalEntries = 4

(* C6 as stated: once a request from A with toEmail = B is accepted, every *)
(* later valid submit from A naming B, or from B naming A, replies 409     *)
(* 'Already in family network' and adds no request.                        *)
Connected(c) ==
  /\ ~MissingFields(c.fromEmail, c.toEmail, c.toName, c.relationship)
  /\ \E i \in Requests :
       /\ familyRequests[i].status = "accepted"
       /\ ~Falsy(familyRequests[i].toEmail)
       /\ \/ /\ c.fromEmail = familyRequests[i].fromEmail
             /\ familyRequests[i].toEmail \in {c.toEmail, c.toName}
          \/ /\ c.fromEmail = familyRequests[i].toEmail
             /\ familyRequests[i].fromEmail \in {c.toEmail, c.toName}

C6_StepAsStated ==
  (call'.op = "submit" /\ Connected(call'))
    => /\ res' = Reply(409, "Already in family network")
       /\ familyRequests' = familyRequests

C6_AlreadyInNetworkAsStated == [][C6_StepAsStated]_vars

(* C6 amended: once a request from A with toEmail = B is accepted, every   *)
(* later valid submit from A naming B, or from B naming A, replies 409     *)
(* ('Request already pending' when the sender has a matching pending       *)
(* request, else 'Already in family network') and adds no request.         *)
C6_Step ==
  (call'.op = "submit" /\ Connected(call'))
    => /\ res' = Reply(409,
                   IF existingRequest(call'.fromEmail, call'.toEmail,
                                      call'.toName, call'.relationship)
                   THEN "Request already pending"
                   ELSE "Already in family network")
       /\ familyRequests' = familyRequests
       /\ familyNetworks' = familyNetworks

C6_ConnectedSubmitConflicts == [][C6_Step]_vars

C6_Witness ==
  /\ call.op = "submit"
  /\ Connected(call)
  /\ res = Reply(409, "Already in family network")
  /\ Falsy(call.toEmail)
  /\ \E i \in Requests :
       /\ familyRequests[i].status = "accepted"
       /\ familyRequests[i].toEmail = call.fromEmail
       /\ familyRequests[i].fromEmail = call.toName

(* C7: a submit, accept or reject that replies 400, 404 or 409 leaves the  *)
(* request store and the network store exactly as they were.               *)
C7_Step ==
  (FamilyCall(call') /\ res'.status \in {400, 404, 409})
    => /\ familyRequests' = familyRequests
       /\ familyNetworks' = familyNetworks

C7_ErrorsLeaveStores == [][C7_Step]_vars

C7_Witness ==
  /\ call.op = "reject"
  /\ res = Reply(400, "Request already processed")
  /\ familyRequests[FindRequest(call.id)].status = "accepted"
  /\ familyRequests[FindRequest(call.id)].respondedAt = "t1"
  /\ TotalEntries = 2

(* C10: no network list holds two entries with the same member e-mail.     *)
C10_NoDuplicateMember ==
  \A key \in DOMAIN familyNetworks :
    \A i, j \in 1..Len(familyNetworks[key]) :
      i # j => familyNetworks[key][i].email # familyNetworks[key][j].email

(* C5: the inverse stored on acceptance round-trips for every label of the *)
(* table (Uncle and Aunt come back as one of the two), and no label of the *)
(* table is inverted to the default 'Related'.                             *)
RoundTrips(label) ==
  LET back == getInverseRelationship(getInverseRelationship(label)) IN
  IF label \in {"Uncle", "Aunt"} THEN back \in {"Uncle", "Aunt"} ELSE back = label

C5_InverseRoundTrips ==
  \A i \in Requests :
    (familyRequests[i].status = "accepted"
       /\ familyRequests[i].relationship \in TableLabels)
    => \A j \in 1..Len(networkOf(familyRequests[i].toEmail)) :
         LET member == networkOf(familyRequests[i].toEmail)[j] IN
         member = TargetEntry(familyRequests[i])
           => /\ member.relationship # "Related"
              /\ RoundTrips(familyRequests[i].relationship)

(* C8: a chat call with a non-empty message is answered by the fallback    *)
(* responder exactly when the client is not configured, the condition      *)
(* under which /api/health reports 'simulated'; with the client configured *)
(* a failing service call is answered {success:false, error} with the      *)
(* service's message and never by the fallback responder.                  *)
C8_FallbackIffNotConfigured ==
  /\ (call.op = "chatbot" /\ ~Falsy(call.message))
       => /\ (res.responder = "fallback") <=> (sessionClient = Undefined)
          /\ (sessionClient # Undefined /\ call.outcome.kind = "throw")
               => /\ res.success = FALSE
                  /\ res.status = 200
                  /\ res.error = Or(call.outcome.message,
                                    "Failed to get response from Dialogflow")
  /\ call.op = "health"
       => (res.dialogflow = "simulated") <=> (sessionClient = Undefined)

C8_Witness ==
  /\ call.op = "chatbot"
  /\ sessionClient # Undefined
  /\ call.outcome.kind = "throw"
  /\ res.error = "14 UNAVAILABLE"

(* C9 as stated: on both chat endpoints a provider failure (the call       *)
(* raises, or answers with a non-success status) is replied as             *)
(* {success:false, error} with HTTP 200; 400 only when message is missing. *)
ProviderFailed(c) ==
  /\ ~Falsy(c.message)
  /\ \/ c.op = "chatbot" /\ sessionClient # Undefined /\ c.outcome.kind = "throw"
     \/ c.op = "gemini" /\ c.outcome.kind = "throw"
     \/ c.op = "gemini" /\ c.outcome.kind = "response" /\ c.outcome.status # 200

C9_FailuresReply200AsStated ==
  call.op \in {"chatbot", "gemini"}
    => /\ ProviderFailed(call) => (res.status = 200 /\ res.success = FALSE)
       /\ res.status = 400 => Falsy(call.message)

(* C9 amended: /api/chatbot replies a provider failure as {success:false,  *)
(* error} with HTTP 200; /api/gemini replies 500 'Internal server error'   *)
(* when the provider call raises and forwards the provider's status with   *)
(* 'Gemini API error' when the provider answers with a status other than   *)
(* 200; both reply 400 'Message is required' when message is missing.      *)
C9_FailureReplies ==
  call.op \in {"chatbot", "gemini"}
    => /\ Falsy(call.message)
            => (res.status = 400 /\ res.error = "Message is required")
       /\ (ProviderFailed(call) /\ call.op = "chatbot")
            => (res.status = 200 /\ res.success = FALSE)
       /\ (ProviderFailed(call) /\ call.op = "gemini" /\ call.outcome.kind = "throw")
            => res = [status |-> 500, success |-> FALSE,
                      error |-> "Internal server error"]
       /\ (ProviderFailed(call) /\ call.op = "gemini"
             /\ call.outcome.kind = "response")
            => res = [status |-> call.outcome.status, success |-> FALSE,
                      error |-> "Gemini API error"]

C9_Witness ==
  /\ call.op = "gemini"
  /\ ProviderFailed(call)
  /\ call.outcome.kind = "response"
  /\ res.status = 503

=============================================================================
